---- MODULE Spec2Model ----
(***************************************************************************)
(* Transport bridge of blok-mcp: the lazily built singletons of            *)
(* http_server.py, the ASGI router SSEMiddleware with its SSE handshake     *)
(* and message intake, and the stdio entrypoint of __main__.py.            *)
(*                                                                         *)
(* The HTTP server runs every request as a task of one asyncio event loop: *)
(* a task keeps the loop from one suspending await to the next.  The       *)
(* variable running holds the task that is inside such a synchronous       *)
(* stretch (0 when the loop is free).                                      *)
(***************************************************************************)
EXTENDS Naturals, Sequences, FiniteSets

\* ------------------------------------------------------------------ bounds
NumTasks == 2
MaxFailures == 1

Tasks == 1..NumTasks

\* ------------------------------------------------------------ value domains
None == "<None>"

Truthy(v) == v # None /\ v # ""

CfgValues(v) == {None, "", v}

AllConfigs ==
  [access_token : CfgValues("cfg-token"),
   email        : CfgValues("user@blok"),
   password     : CfgValues("secret")]

\* one configuration per posture
BridgeConfigs ==
  { c \in AllConfigs :
      /\ c.access_token \in {None, "cfg-token"}
      /\ c.email \in {None, "user@blok"}
      /\ c.password \in {None, "secret"}
      /\ (c.access_token # None => c.email = None /\ c.password = None)
      /\ (c.password # None <=> c.email # None) }

ScopeTypes == {"http", "websocket"}
Paths == {"/sse", "/sse/", "/messages/", "/messages", "/health", "/favicon.ico",
          "/oauth/authorize", "/oauth/token"}
Methods == {"GET", "POST"}
HeaderValues == {None, "tok-a", "tok-b"}
InputHeaderValues == {None, "", "tok-a"}

Bodies == {"", "grant_type=authorization_code"}

\* every connection shape, and the OAuth stubs once more with a request body
AllRequests ==
  [type : ScopeTypes, path : Paths, method : Methods,
   x_session_token : InputHeaderValues, session_id : {0}, body : {""}]
  \cup
  [type : {"http"}, path : {"/oauth/authorize", "/oauth/token"}, method : Methods,
   x_session_token : {None}, session_id : {0}, body : Bodies \ {""}]

\* the requests of the concurrent bridge: handshakes with each header value,
\* posts to an unknown and to a known session, and pass-through requests
BridgeRequests ==
  [type : {"http"}, path : {"/sse"}, method : {"GET"},
   x_session_token : HeaderValues, session_id : {0}, body : {""}]
  \cup
  [type : {"http"}, path : {"/messages/"}, method : {"POST"},
   x_session_token : {None}, session_id : {0, 1}, body : {""}]
  \cup
  [type : {"http"}, path : {"/favicon.ico"}, method : {"GET"},
   x_session_token : {"tok-b"}, session_id : {0}, body : {""}]
  \cup
  [type : {"websocket"}, path : {"/sse"}, method : {"GET"},
   x_session_token : {"tok-b"}, session_id : {0}, body : {""}]

NoRequest ==
  [type |-> "", path |-> "", method |-> "",
   x_session_token |-> None, session_id |-> 0, body |-> ""]

\* ------------------------------------------------------------------- state
VARIABLES
  config,          \* blok_mcp.config.config: access_token, email, password
  mcp_server,      \* _mcp_server: index into servers, 0 for None
  sse_transport,   \* _sse_transport: number of the transport, 0 for None
  servers,         \* every BlokMCPServer constructed so far
  transports,      \* how many SseServerTransport were constructed
  sessions,        \* the open SSE sessions of the transport
  config_reads,    \* how many times get_mcp_server read the credentials
  set_token_calls, \* every call of set_token made by handle_sse
  running,         \* the task inside a synchronous stretch, 0 if none
  pc,              \* where each task stands
  req,             \* the ASGI scope of each task
  l_mcp_server,    \* handle_sse's local mcp_server
  l_sse,           \* handle_sse's / handle_messages' local sse
  touched,         \* what the task's handling has called so far
  outcome,         \* how the task's handling ended
  stdio_pc,        \* __main__.main: where it stands
  stdio_server,    \* __main__.main: the server it constructed
  exit_code        \* __main__.main: the exit status, <<>> while running

http_vars ==
  <<mcp_server, sse_transport, servers, transports, sessions, config_reads,
    set_token_calls, running, pc, req, l_mcp_server, l_sse, touched, outcome>>

stdio_vars == <<stdio_pc, stdio_server, exit_code>>

vars == <<config, http_vars, stdio_vars>>

\* --------------------------------------------------- posture and the server
\* variant: the email and the password are each passed on their own
get_mcp_server_args_partial(c) ==
  [pre_auth_token     |-> IF Truthy(c.access_token) THEN c.access_token ELSE None,
   auto_auth_email    |-> IF Truthy(c.email) THEN c.email ELSE None,
   auto_auth_password |-> IF Truthy(c.password) THEN c.password ELSE None]

\* the arguments get_mcp_server passes to BlokMCPServer
get_mcp_server_args(c) ==
  [pre_auth_token     |-> IF Truthy(c.access_token) THEN c.access_token ELSE None,
   auto_auth_email    |-> IF Truthy(c.email) /\ Truthy(c.password) THEN c.email ELSE None,
   auto_auth_password |-> IF Truthy(c.email) /\ Truthy(c.password) THEN c.password ELSE None]

\* variant: the token is tested against None, so an empty one is passed on
main_args_not_none(c) ==
  [pre_auth_token     |-> IF c.access_token # None THEN c.access_token ELSE None,
   auto_auth_email    |-> IF Truthy(c.email) /\ Truthy(c.password) THEN c.email ELSE None,
   auto_auth_password |-> IF Truthy(c.email) /\ Truthy(c.password) THEN c.password ELSE None]

\* the arguments __main__.main passes to BlokMCPServer
main_args(c) ==
  [pre_auth_token     |-> IF Truthy(c.access_token) THEN c.access_token ELSE None,
   auto_auth_email    |-> IF Truthy(c.email) /\ Truthy(c.password) THEN c.email ELSE None,
   auto_auth_password |-> IF Truthy(c.email) /\ Truthy(c.password) THEN c.password ELSE None]

\* the posture the server takes from its constructor arguments
Posture(args) ==
  IF args.pre_auth_token # None THEN "PreAuthToken"
  ELSE IF args.auto_auth_email # None /\ args.auto_auth_password # None THEN "AutoLogin"
  ELSE "Unauthenticated"

LoginToken == "login-token"

\* a freshly constructed server: its arguments and its session manager
BlokMCPServer(args) ==
  [args             |-> args,
   credential       |-> CASE Posture(args) = "PreAuthToken" -> args.pre_auth_token
                          [] Posture(args) = "AutoLogin" -> LoginToken
                          [] OTHER -> None,
   is_authenticated |-> Posture(args) # "Unauthenticated"]

\* SessionManager.set_token
set_token(s, value) ==
  IF s.is_authenticated THEN s
  ELSE [s EXCEPT !.credential = value, !.is_authenticated = TRUE]

\* ------------------------------------------------------------------ router
\* variant: the message path is matched by prefix
RoutePrefix(r) ==
  IF r.type # "http" THEN "app"
  ELSE IF r.path \in {"/sse", "/sse/"} /\ r.method = "GET" THEN "sse"
  ELSE IF r.path \in {"/messages/", "/messages"} /\ r.method = "POST" THEN "messages"
  ELSE "app"

\* variant: the method of a handshake is not tested
RouteAnyMethod(r) ==
  IF r.type # "http" THEN "app"
  ELSE IF r.path \in {"/sse", "/sse/"} THEN "sse"
  ELSE IF r.path = "/messages/" /\ r.method = "POST" THEN "messages"
  ELSE "app"

\* variant: the connection type is not tested
RouteAnyType(r) ==
  IF r.path \in {"/sse", "/sse/"} /\ r.method = "GET" THEN "sse"
  ELSE IF r.path = "/messages/" /\ r.method = "POST" THEN "messages"
  ELSE "app"

\* SSEMiddleware.__call__: which handler takes the connection
Route(r) ==
  IF r.type # "http" THEN "app"
  ELSE IF r.path \in {"/sse", "/sse/"} /\ r.method = "GET" THEN "sse"
  ELSE IF r.path = "/messages/" /\ r.method = "POST" THEN "messages"
  ELSE "app"

\* headers.get(b"x-session-token", b"").decode()
SessionToken(r) == IF r.x_session_token = None THEN "" ELSE r.x_session_token

\* variant: the negation of is_authenticated is lost
InjectGuardInverted(session_token, is_authenticated) ==
  session_token # "" /\ is_authenticated

\* variant: the token is injected whenever the header carries one
InjectGuardAnyToken(session_token, is_authenticated) ==
  session_token # ""

\* the condition under which handle_sse injects the header token
InjectGuard(session_token, is_authenticated) ==
  session_token # "" /\ ~is_authenticated

\* variant: the authorize stub is routed for GET alone
AppResponseAuthorizeGetOnly(r) ==
  IF r.type # "http" THEN "downstream"
  ELSE IF r.path = "/health"
    THEN (IF r.method = "GET" THEN "200 ok" ELSE "405")
  ELSE IF r.path = "/oauth/authorize"
    THEN (IF r.method = "GET" THEN "400 unsupported_grant_type" ELSE "405")
  ELSE IF r.path = "/oauth/token"
    THEN (IF r.method = "POST" THEN "400 unsupported_grant_type" ELSE "405")
  ELSE "404"

\* the downstream Starlette application's answer: the routes of create_app
\* with their methods, and the handlers' fixed payloads
AppResponse(r) ==
  IF r.type # "http" THEN "downstream"
  ELSE IF r.path = "/health"
    THEN (IF r.method = "GET" THEN "200 ok" ELSE "405")
  ELSE IF r.path = "/oauth/authorize" THEN "400 unsupported_grant_type"
  ELSE IF r.path = "/oauth/token"
    THEN (IF r.method = "POST" THEN "400 unsupported_grant_type" ELSE "405")
  ELSE "404"

\* variant: the message is acknowledged without looking for its session
PostResponseAlwaysAccepted(session_id, open) == "202 accepted"

\* the transport's answer to a posted message: it looks up the session the
\* message names among the open ones
PostResponse(session_id, open) ==
  IF session_id \in open THEN "202 accepted" ELSE "404 no session"

\* ---------------------------------------------------------------- schedule
\* variant: the constructor of the server awaits (an asynchronous login)
SuspendsInConstructor(p) ==
  p \in {"idle", "call", "app", "streams", "run", "post", "construct"}

\* variant: set_token is awaited after the test of is_authenticated
SuspendsBeforeSetToken(p) ==
  p \in {"idle", "call", "app", "streams", "run", "post", "set_token"}

\* the places where a task waits on the event loop: before __call__ starts,
\* inside the downstream application, inside connect_sse, inside the run
\* loop, inside handle_post_message
Suspends(p) == p \in {"idle", "call", "app", "streams", "run", "post"}

MayStep(t) == running \in {0, t}

Goto(t, p) ==
  /\ pc' = [pc EXCEPT ![t] = p]
  /\ running' = IF Suspends(p) THEN 0 ELSE t

\* ----------------------------------------------------------------- initial
InitBridge ==
  /\ mcp_server = 0
  /\ sse_transport = 0
  /\ servers = <<>>
  /\ transports = 0
  /\ sessions = {}
  /\ config_reads = 0
  /\ set_token_calls = {}
  /\ running = 0
  /\ pc = [t \in Tasks |-> "idle"]
  /\ req = [t \in Tasks |-> NoRequest]
  /\ l_mcp_server = [t \in Tasks |-> 0]
  /\ l_sse = [t \in Tasks |-> 0]
  /\ touched = [t \in Tasks |-> {}]
  /\ outcome = [t \in Tasks |-> "none"]
  /\ stdio_pc = "start"
  /\ stdio_server = <<>>
  /\ exit_code = <<>>

Init == config \in BridgeConfigs /\ InitBridge

\* ------------------------------------------------------- SSEMiddleware.__call__
\* the ASGI server starts a task for an inbound connection
Accept(t, r) ==
  /\ MayStep(t)
  /\ pc[t] = "idle"
  /\ req' = [req EXCEPT ![t] = r]
  /\ Goto(t, "call")
  /\ UNCHANGED <<config, mcp_server, sse_transport, servers, transports, sessions,
                 config_reads, set_token_calls, l_mcp_server, l_sse, touched,
                 outcome, stdio_vars>>

\* variant: message intake fetches the server like the handshake does
Call_messages_via_server(t) ==
  /\ MayStep(t)
  /\ pc[t] = "call"
  /\ Goto(t, CASE Route(req[t]) = "sse" -> "get_mcp_server"
               [] Route(req[t]) = "messages" -> "get_mcp_server"
               [] OTHER -> "app")
  /\ UNCHANGED <<config, mcp_server, sse_transport, servers, transports, sessions,
                 config_reads, set_token_calls, req, l_mcp_server, l_sse, touched,
                 outcome, stdio_vars>>

\* __call__ picks the handler
Call(t) ==
  /\ MayStep(t)
  /\ pc[t] = "call"
  /\ Goto(t, CASE Route(req[t]) = "sse" -> "get_mcp_server"
               [] Route(req[t]) = "messages" -> "get_sse_transport"
               [] OTHER -> "app")
  /\ UNCHANGED <<config, mcp_server, sse_transport, servers, transports, sessions,
                 config_reads, set_token_calls, req, l_mcp_server, l_sse, touched,
                 outcome, stdio_vars>>

\* await self.app(scope, receive, send)
app_call(t) ==
  /\ MayStep(t)
  /\ pc[t] = "app"
  /\ outcome' = [outcome EXCEPT ![t] = AppResponse(req[t])]
  /\ Goto(t, "done")
  /\ UNCHANGED <<config, mcp_server, sse_transport, servers, transports, sessions,
                 config_reads, set_token_calls, req, l_mcp_server, l_sse, touched,
                 stdio_vars>>

\* ------------------------------------------------------------ get_mcp_server
\* variant: the credentials are read before the slot is tested
get_mcp_server_reads_first(t) ==
  /\ MayStep(t)
  /\ pc[t] = "get_mcp_server"
  /\ touched' = [touched EXCEPT ![t] = @ \cup {"server"}]
  /\ config_reads' = config_reads + 1
  /\ IF mcp_server = 0
       THEN /\ Goto(t, "construct")
            /\ UNCHANGED l_mcp_server
       ELSE /\ l_mcp_server' = [l_mcp_server EXCEPT ![t] = mcp_server]
            /\ Goto(t, "get_sse_transport")
  /\ UNCHANGED <<config, mcp_server, sse_transport, servers, transports, sessions,
                 set_token_calls, req, l_sse, outcome, stdio_vars>>

\* variant: the slot is not consulted, every call constructs
get_mcp_server_uncached(t) ==
  /\ MayStep(t)
  /\ pc[t] = "get_mcp_server"
  /\ touched' = [touched EXCEPT ![t] = @ \cup {"server"}]
  /\ Goto(t, "construct")
  /\ UNCHANGED <<config, mcp_server, sse_transport, servers, transports, sessions,
                 config_reads, set_token_calls, req, l_mcp_server, l_sse, outcome,
                 stdio_vars>>

\* handle_sse calls get_mcp_server: the test of the cached slot
get_mcp_server(t) ==
  /\ MayStep(t)
  /\ pc[t] = "get_mcp_server"
  /\ touched' = [touched EXCEPT ![t] = @ \cup {"server"}]
  /\ IF mcp_server = 0
       THEN /\ Goto(t, "construct")
            /\ UNCHANGED l_mcp_server
       ELSE /\ l_mcp_server' = [l_mcp_server EXCEPT ![t] = mcp_server]
            /\ Goto(t, "get_sse_transport")
  /\ UNCHANGED <<config, mcp_server, sse_transport, servers, transports, sessions,
                 config_reads, set_token_calls, req, l_sse, outcome, stdio_vars>>

\* the credentials are read and the server is constructed and cached
construct_ok(t) ==
  /\ MayStep(t)
  /\ pc[t] = "construct"
  /\ config_reads' = config_reads + 1
  /\ servers' = Append(servers, BlokMCPServer(get_mcp_server_args(config)))
  /\ mcp_server' = Len(servers')
  /\ l_mcp_server' = [l_mcp_server EXCEPT ![t] = mcp_server']
  /\ Goto(t, "get_sse_transport")
  /\ UNCHANGED <<config, sse_transport, transports, sessions, set_token_calls,
                 req, l_sse, touched, outcome, stdio_vars>>

\* variant: the slot is assigned before the constructor has finished
construct_fails_cached(t) ==
  /\ MayStep(t)
  /\ pc[t] = "construct"
  /\ config_reads <= MaxFailures
  /\ config_reads' = config_reads + 1
  /\ servers' = Append(servers, [args |-> get_mcp_server_args(config),
                                 credential |-> None, is_authenticated |-> FALSE])
  /\ mcp_server' = Len(servers')
  /\ outcome' = [outcome EXCEPT ![t] = "error"]
  /\ Goto(t, "done")
  /\ UNCHANGED <<config, sse_transport, transports, sessions,
                 set_token_calls, req, l_mcp_server, l_sse, touched, stdio_vars>>

\* the constructor raises: nothing is assigned, the exception leaves __call__
construct_fails(t) ==
  /\ MayStep(t)
  /\ pc[t] = "construct"
  /\ config_reads <= MaxFailures
  /\ config_reads' = config_reads + 1
  /\ outcome' = [outcome EXCEPT ![t] = "error"]
  /\ Goto(t, "done")
  /\ UNCHANGED <<config, mcp_server, sse_transport, servers, transports, sessions,
                 set_token_calls, req, l_mcp_server, l_sse, touched, stdio_vars>>

\* --------------------------------------------------------- get_sse_transport
\* variant: handle_sse opens the SSE session right after the getters
AfterTransportNoInjection(t) == IF Route(req[t]) = "sse" THEN "connect_sse" ELSE "post"

\* where the caller of get_sse_transport goes on: handle_sse to its header
\* test, handle_messages to handle_post_message
AfterTransport(t) == IF Route(req[t]) = "sse" THEN "inject" ELSE "post"

get_sse_transport(t) ==
  /\ MayStep(t)
  /\ pc[t] = "get_sse_transport"
  /\ touched' = [touched EXCEPT ![t] = @ \cup {"transport"}]
  /\ IF sse_transport = 0
       THEN /\ Goto(t, "new_transport")
            /\ UNCHANGED l_sse
       ELSE /\ l_sse' = [l_sse EXCEPT ![t] = sse_transport]
            /\ Goto(t, AfterTransport(t))
  /\ UNCHANGED <<config, mcp_server, sse_transport, servers, transports, sessions,
                 config_reads, set_token_calls, req, l_mcp_server, outcome,
                 stdio_vars>>

new_transport(t) ==
  /\ MayStep(t)
  /\ pc[t] = "new_transport"
  /\ transports' = transports + 1
  /\ sse_transport' = transports'
  /\ l_sse' = [l_sse EXCEPT ![t] = sse_transport']
  /\ Goto(t, AfterTransport(t))
  /\ UNCHANGED <<config, mcp_server, servers, sessions, config_reads,
                 set_token_calls, req, l_mcp_server, touched, outcome, stdio_vars>>

\* ----------------------------------------------------------------- handle_sse
\* variant: a token offered to an authenticated session ends the connection
handle_sse_check_rejects(t) ==
  /\ MayStep(t)
  /\ pc[t] = "inject"
  /\ touched' = [touched EXCEPT ![t] =
                   IF SessionToken(req[t]) # "" THEN @ \cup {"session"} ELSE @]
  /\ IF SessionToken(req[t]) # "" /\ servers[l_mcp_server[t]].is_authenticated
       THEN /\ outcome' = [outcome EXCEPT ![t] = "403 rejected"]
            /\ Goto(t, "done")
       ELSE /\ UNCHANGED outcome
            /\ Goto(t, IF InjectGuard(SessionToken(req[t]),
                                      servers[l_mcp_server[t]].is_authenticated)
                        THEN "set_token" ELSE "connect_sse")
  /\ UNCHANGED <<config, mcp_server, sse_transport, servers, transports, sessions,
                 config_reads, set_token_calls, req, l_mcp_server, l_sse,
                 stdio_vars>>

\* the header is decoded and the injection condition is evaluated
handle_sse_check(t) ==
  /\ MayStep(t)
  /\ pc[t] = "inject"
  /\ touched' = [touched EXCEPT ![t] =
                   IF SessionToken(req[t]) # "" THEN @ \cup {"session"} ELSE @]
  /\ Goto(t, IF InjectGuard(SessionToken(req[t]),
                            servers[l_mcp_server[t]].is_authenticated)
              THEN "set_token" ELSE "connect_sse")
  /\ UNCHANGED <<config, mcp_server, sse_transport, servers, transports, sessions,
                 config_reads, set_token_calls, req, l_mcp_server, l_sse, outcome,
                 stdio_vars>>

\* mcp_server.session_manager.set_token(session_token)
handle_sse_set_token(t) ==
  /\ MayStep(t)
  /\ pc[t] = "set_token"
  /\ set_token_calls' = set_token_calls \cup
        {[task |-> t, token |-> SessionToken(req[t]),
          authenticated_before |-> servers[l_mcp_server[t]].is_authenticated]}
  /\ servers' = [servers EXCEPT ![l_mcp_server[t]] = set_token(@, SessionToken(req[t]))]
  /\ Goto(t, "connect_sse")
  /\ UNCHANGED <<config, mcp_server, sse_transport, transports, sessions,
                 config_reads, req, l_mcp_server, l_sse, touched, outcome,
                 stdio_vars>>

\* async with sse.connect_sse(...): the session is registered
connect_sse(t) ==
  /\ MayStep(t)
  /\ pc[t] = "connect_sse"
  /\ sessions' = sessions \cup {t}
  /\ Goto(t, "streams")
  /\ UNCHANGED <<config, mcp_server, sse_transport, servers, transports,
                 config_reads, set_token_calls, req, l_mcp_server, l_sse, touched,
                 outcome, stdio_vars>>

\* await mcp_server.server.run(streams[0], streams[1], ...)
server_run(t) ==
  /\ MayStep(t)
  /\ pc[t] = "streams"
  /\ Goto(t, "run")
  /\ UNCHANGED <<config, mcp_server, sse_transport, servers, transports, sessions,
                 config_reads, set_token_calls, req, l_mcp_server, l_sse, touched,
                 outcome, stdio_vars>>

\* variant: leaving the session also drops the cached transport
disconnect_drops_transport(t) ==
  /\ MayStep(t)
  /\ pc[t] \in {"streams", "run"}
  /\ sessions' = sessions \ {t}
  /\ sse_transport' = 0
  /\ \E how \in {"closed", "error"} : outcome' = [outcome EXCEPT ![t] = how]
  /\ Goto(t, "done")
  /\ UNCHANGED <<config, mcp_server, servers, transports,
                 config_reads, set_token_calls, req, l_mcp_server, l_sse, touched,
                 stdio_vars>>

\* the client closes the connection, or the connection fails: the run loop
\* ends (or raises) and the async with block releases the streams
disconnect(t) ==
  /\ MayStep(t)
  /\ pc[t] \in {"streams", "run"}
  /\ sessions' = sessions \ {t}
  /\ \E how \in {"closed", "error"} : outcome' = [outcome EXCEPT ![t] = how]
  /\ Goto(t, "done")
  /\ UNCHANGED <<config, mcp_server, sse_transport, servers, transports,
                 config_reads, set_token_calls, req, l_mcp_server, l_sse, touched,
                 stdio_vars>>

\* ------------------------------------------------------------ handle_messages
\* await sse.handle_post_message(scope, receive, send)
handle_post_message(t) ==
  /\ MayStep(t)
  /\ pc[t] = "post"
  /\ outcome' = [outcome EXCEPT ![t] = PostResponse(req[t].session_id, sessions)]
  /\ Goto(t, "done")
  /\ UNCHANGED <<config, mcp_server, sse_transport, servers, transports, sessions,
                 config_reads, set_token_calls, req, l_mcp_server, l_sse, touched,
                 stdio_vars>>

\* the task of the connection ends
Return(t) ==
  /\ MayStep(t)
  /\ pc[t] = "done"
  /\ req' = [req EXCEPT ![t] = NoRequest]
  /\ l_mcp_server' = [l_mcp_server EXCEPT ![t] = 0]
  /\ l_sse' = [l_sse EXCEPT ![t] = 0]
  /\ touched' = [touched EXCEPT ![t] = {}]
  /\ outcome' = [outcome EXCEPT ![t] = "none"]
  /\ Goto(t, "idle")
  /\ UNCHANGED <<config, mcp_server, sse_transport, servers, transports, sessions,
                 config_reads, set_token_calls, stdio_vars>>

\* ------------------------------------------------------------- __main__.main
main_construct ==
  /\ stdio_pc = "start"
  /\ stdio_server' = <<BlokMCPServer(main_args(config))>>
  /\ stdio_pc' = "run"
  /\ UNCHANGED <<config, http_vars, exit_code>>

\* variant: every handler exits with status 0
main_except_zero(exc) == 0

\* the except clauses of main: the status passed to sys.exit
main_except(exc) == IF exc = "KeyboardInterrupt" THEN 0 ELSE 1

\* BlokMCPServer(...) or asyncio.run(server.run()) raises an Exception
main_raises ==
  /\ stdio_pc \in {"start", "run"}
  /\ stdio_pc' = "Exception"
  /\ exit_code' = <<main_except("Exception")>>
  /\ UNCHANGED <<config, http_vars, stdio_server>>

\* the process is interrupted inside the try block
main_interrupted ==
  /\ stdio_pc \in {"start", "run"}
  /\ stdio_pc' = "KeyboardInterrupt"
  /\ exit_code' = <<main_except("KeyboardInterrupt")>>
  /\ UNCHANGED <<config, http_vars, stdio_server>>

\* server.run() returns: main returns and the interpreter exits normally
main_returns ==
  /\ stdio_pc = "run"
  /\ stdio_pc' = "returned"
  /\ exit_code' = <<0>>
  /\ UNCHANGED <<config, http_vars, stdio_server>>

\* ----------------------------------------------------------- specifications
Step(t) ==
  \/ Call(t)
  \/ app_call(t)
  \/ get_mcp_server(t)
  \/ construct_ok(t)
  \/ construct_fails(t)
  \/ get_sse_transport(t)
  \/ new_transport(t)
  \/ handle_sse_check(t)
  \/ handle_sse_set_token(t)
  \/ connect_sse(t)
  \/ server_run(t)
  \/ disconnect(t)
  \/ handle_post_message(t)
  \/ Return(t)

\* the HTTP bridge under concurrent connections
Next ==
  \E t \in Tasks :
    \/ \E r \in BridgeRequests : Accept(t, r)
    \/ Step(t)

Spec == Init /\ [][Next]_vars

\* every configuration and every request, one connection at a time, next to
\* the stdio entrypoint started from the same configuration
InitInputs == config \in AllConfigs /\ InitBridge

NextInputs ==
  \/ \E r \in AllRequests : Accept(1, r)
  \/ Step(1)
  \/ main_construct
  \/ main_raises
  \/ main_interrupted
  \/ main_returns

SpecInputs == InitInputs /\ [][NextInputs]_vars

\* ------------------------------------------------------------------ claims
HttpPosture == Posture(get_mcp_server_args(config))

\* C1: at most one BlokMCPServer and at most one SseServerTransport are ever
\* constructed, and every call of get_mcp_server() and of get_sse_transport()
\* that has returned holds that one instance, whatever the interleaving of
\* handshake and message tasks.
C1_OneServerOneTransport ==
  /\ Len(servers) <= 1
  /\ transports <= 1
  /\ mcp_server = Len(servers)
  /\ sse_transport = transports
  /\ \A t \in Tasks :
       /\ l_mcp_server[t] # 0 => l_mcp_server[t] = mcp_server
       /\ l_sse[t] # 0 => l_sse[t] = sse_transport

\* a handshake was already pending when another one made the first call and
\* constructed the server; a message task made the first call for the transport
C1_Witness ==
  \E t, u \in Tasks :
    /\ t # u
    /\ pc[t] = "call" /\ Route(req[t]) = "sse"
    /\ pc[u] = "get_sse_transport" /\ Route(req[u]) = "sse"
    /\ l_mcp_server[u] = 1 /\ config_reads = 1
    /\ sse_transport = 1

\* C2: when the constructor raises inside get_mcp_server(), the caller ends
\* with the error, the slot _mcp_server stays empty and no instance exists;
\* a later call of get_mcp_server() finds the slot empty and constructs again.
C2_FailedConstructionNotCached ==
  [][\A t \in Tasks :
       /\ (pc[t] = "construct" /\ pc'[t] \notin {"construct", "get_sse_transport"})
            => /\ pc'[t] = "done" /\ outcome'[t] = "error"
               /\ mcp_server' = 0 /\ servers' = <<>>
               /\ l_mcp_server'[t] = 0
       /\ (pc[t] = "get_mcp_server" /\ pc'[t] # "get_mcp_server" /\ Len(servers) = 0)
            => pc'[t] = "construct"]_vars

\* after a failed attempt a later call is constructing again
C2_Witness ==
  \E t \in Tasks :
    /\ pc[t] = "get_sse_transport" /\ Route(req[t]) = "sse"
    /\ config_reads = 2 /\ Len(servers) = 1 /\ l_mcp_server[t] = 1

\* C3: on a server constructed Unauthenticated, a handshake carrying a
\* non-empty X-Session-Token leaves the injection step with the session
\* authenticated, and with the credential equal to its own token if the session
\* was unauthenticated before; once authenticated, no step changes the
\* credential, so later handshakes with another token keep the first one.
C3_FirstTokenWins ==
  [][HttpPosture = "Unauthenticated" =>
       \A i \in DOMAIN servers :
         /\ \A t \in Tasks :
              ( /\ pc[t] \in {"inject", "set_token"} /\ pc'[t] = "connect_sse"
                /\ l_mcp_server[t] = i
                /\ SessionToken(req[t]) # "" )
              => /\ servers'[i].is_authenticated
                 /\ (servers[i].is_authenticated
                       \/ pc[t] = "inject"
                       \/ servers'[i].credential = SessionToken(req[t]))
                 /\ (pc[t] = "inject" => servers[i].is_authenticated)
         /\ servers[i].is_authenticated => servers'[i] = servers[i]]_vars

\* a connection that carried tok-b runs while the credential is still tok-a
C3_Witness ==
  /\ HttpPosture = "Unauthenticated"
  /\ \E t \in Tasks :
       /\ pc[t] = "run" /\ SessionToken(req[t]) = "tok-b"
       /\ servers[l_mcp_server[t]].credential = "tok-a"
       /\ servers[l_mcp_server[t]].is_authenticated

\* C4: on a server constructed from a pre-fetched token or by auto-login,
\* handle_sse never calls set_token and the session manager stays as the
\* constructor left it, whatever handshakes arrive.
C4_StartupPostureKept ==
  HttpPosture \in {"PreAuthToken", "AutoLogin"} =>
    /\ set_token_calls = {}
    /\ \A t \in Tasks : pc[t] # "set_token"
    /\ \A i \in DOMAIN servers :
         servers[i] = BlokMCPServer(get_mcp_server_args(config))

\* handshakes with and without the header have run on a pre-authenticated server
C4_Witness ==
  /\ HttpPosture = "PreAuthToken"
  /\ \E t, u \in Tasks :
       /\ pc[t] = "run" /\ SessionToken(req[t]) = "tok-a"
       /\ pc[u] = "run" /\ SessionToken(req[u]) = ""
       /\ servers[mcp_server].credential = "cfg-token"

\* C5: the test of is_authenticated and the call of set_token are one
\* critical section: set_token is called at most once, by a task that saw the
\* session unauthenticated, and the credential is that task's token.
C5_OneInjection ==
  /\ Cardinality(set_token_calls) <= 1
  /\ \A c \in set_token_calls :
       /\ ~c.authenticated_before
       /\ servers[mcp_server].is_authenticated
       /\ servers[mcp_server].credential = c.token
  /\ \A t \in Tasks :
       pc[t] = "set_token" =>
         /\ set_token_calls = {}
         /\ ~servers[l_mcp_server[t]].is_authenticated

\* a handshake with tok-a is pending while another has just injected tok-b
C5_Witness ==
  \E t, u \in Tasks :
    /\ pc[t] = "call" /\ Route(req[t]) = "sse" /\ SessionToken(req[t]) = "tok-a"
    /\ pc[u] = "connect_sse" /\ SessionToken(req[u]) = "tok-b"
    /\ set_token_calls = {[task |-> u, token |-> "tok-b",
                            authenticated_before |-> FALSE]}
    /\ servers[mcp_server].credential = "tok-b"

\* a configuration value counts as present when it is set and not empty
Present(v) == v \notin {None, ""}

\* the priority table: token, else email with password, else nothing
TablePosture(c) ==
  IF Present(c.access_token) THEN "PreAuthToken"
  ELSE IF Present(c.email) /\ Present(c.password) THEN "AutoLogin"
  ELSE "Unauthenticated"

Constructed ==
  {servers[i] : i \in DOMAIN servers} \cup {stdio_server[i] : i \in DOMAIN stdio_server}

\* C6: for every configuration of present, empty or absent token, email and
\* password, a constructed server (by either entrypoint) has the posture of
\* the priority table, a present token is passed on also next to an email and
\* password, and an email or password without the other is passed on as neither.
C6_PostureByPriority ==
  \A s \in Constructed :
    /\ Posture(s.args) = TablePosture(config)
    /\ s.args.pre_auth_token =
         (IF Present(config.access_token) THEN config.access_token ELSE None)
    /\ ~(Present(config.email) /\ Present(config.password))
         => s.args.auto_auth_email = None /\ s.args.auto_auth_password = None
    /\ (Present(config.email) /\ Present(config.password))
         => s.args.auto_auth_email = config.email
            /\ s.args.auto_auth_password = config.password

\* the HTTP server exists for a password without an email, and the stdio
\* server for a token next to an email and a password
C6_Witness ==
  \/ /\ mcp_server = 1
     /\ ~Present(config.access_token) /\ ~Present(config.email)
     /\ Present(config.password)
     /\ Posture(servers[1].args) = "Unauthenticated"
     /\ servers[1].args.auto_auth_password = None
  \/ /\ Len(stdio_server) = 1
     /\ Present(config.access_token) /\ Present(config.email)
     /\ Present(config.password)
     /\ Posture(stdio_server[1].args) = "PreAuthToken"

\* C7: the stdio entrypoint and get_mcp_server() pass the same three
\* arguments to the constructor, so both servers start alike.
C7_SameArgsBothModes ==
  (Len(stdio_server) = 1 /\ mcp_server # 0) =>
    /\ stdio_server[1].args = servers[mcp_server].args
    /\ Posture(stdio_server[1].args) = Posture(servers[mcp_server].args)

\* both servers exist for an empty token next to an email and a password
C7_Witness ==
  /\ Len(stdio_server) = 1 /\ mcp_server = 1
  /\ config.access_token = "" /\ Present(config.email) /\ Present(config.password)
  /\ stdio_server[1].args.auto_auth_email = config.email

\* the route of an HTTP request by path and method
TableRoute(r) ==
  CASE r.method = "GET" /\ r.path \in {"/sse", "/sse/"} -> "get_mcp_server"
    [] r.method = "POST" /\ r.path = "/messages/" -> "get_sse_transport"
    [] OTHER -> "app"

\* C8: an HTTP request goes to exactly one of three routes: GET on /sse or
\* /sse/ to the handshake, POST on /messages/ to message intake, every other
\* path and method to the downstream application.
C8_RouteByPathAndMethod ==
  [][\A t \in Tasks :
       (pc[t] = "call" /\ pc'[t] # "call" /\ req[t].type = "http")
         => pc'[t] = TableRoute(req[t])]_vars

\* POST on /messages has reached the downstream application
C8_Witness ==
  \E t \in Tasks :
    /\ pc[t] = "app" /\ req[t].type = "http"
    /\ req[t].path = "/messages" /\ req[t].method = "POST"

\* the bridge state a request may touch
bridge_state ==
  <<mcp_server, sse_transport, servers, transports, sessions, config_reads,
    set_token_calls>>

PassThrough(r) ==
  /\ r.type = "http"
  /\ ~(r.method = "GET" /\ r.path \in {"/sse", "/sse/"})
  /\ ~(r.method = "POST" /\ r.path = "/messages/")

\* C9: a pass-through request goes to the downstream application and to
\* nothing else: while it is handled, the singletons, the session manager,
\* the open sessions and the configuration reads stay as they were, and the
\* task calls neither getter and does not query the session manager.
C9_PassThroughFrame ==
  [][\A t \in Tasks :
       (pc[t] # "idle" /\ PassThrough(req[t]))
         => /\ UNCHANGED bridge_state
            /\ touched'[t] = {}
            /\ pc[t] = "call" => pc'[t] \in {"call", "app"}
            /\ pc'[t] \in {"call", "app", "done", "idle"}]_vars

\* /favicon.ico was answered downstream while the server exists
C9_Witness ==
  \E t \in Tasks :
    /\ pc[t] = "done" /\ req[t].type = "http"
    /\ req[t].path = "/favicon.ico" /\ req[t].x_session_token = "tok-a"
    /\ outcome[t] = "404"
    /\ mcp_server = 1 /\ sse_transport = 1

\* C10: a connection that is not HTTP is handed to the downstream
\* application whatever its path and method: it never enters the handshake or
\* the message intake and nothing else answers it.
C10_NonHttpPassedDown ==
  \A t \in Tasks :
    (pc[t] # "idle" /\ req[t].type # "http")
      => /\ pc[t] \in {"call", "app", "done"}
         /\ touched[t] = {}
         /\ pc[t] = "done" => outcome[t] = "downstream"

\* a websocket connection addressed to GET /sse was handled downstream
C10_Witness ==
  \E t \in Tasks :
    /\ pc[t] = "done" /\ req[t].type = "websocket"
    /\ req[t].path = "/sse" /\ req[t].method = "GET"
    /\ outcome[t] = "downstream"

OAuthStubError == "400 unsupported_grant_type"

\* C11: a GET to the authorize stub is answered with the fixed
\* unsupported_grant_type payload whatever the request body, and so is a POST
\* to the authorize stub and a POST to the token stub; a GET to the token stub
\* is answered 405 by the router, which routes that stub for POST alone.
C11_OAuthStubsAnswer ==
  \A t \in Tasks :
    (pc[t] = "done" /\ req[t].type = "http") =>
      /\ req[t].path = "/oauth/authorize" => outcome[t] = OAuthStubError
      /\ (req[t].path = "/oauth/token" /\ req[t].method = "POST")
           => outcome[t] = OAuthStubError
      /\ (req[t].path = "/oauth/token" /\ req[t].method = "GET")
           => outcome[t] = "405"

\* a GET with a body to the authorize stub was answered with the payload
C11_Witness ==
  \E t \in Tasks :
    /\ pc[t] = "done" /\ req[t].type = "http"
    /\ req[t].path = "/oauth/authorize" /\ req[t].method = "GET"
    /\ req[t].body # ""
    /\ outcome[t] = OAuthStubError

\* C11 as stated: a GET to either stub is answered with the fixed payload
C11_GetAlwaysStubError ==
  \A t \in Tasks :
    ( /\ pc[t] = "done" /\ req[t].type = "http" /\ req[t].method = "GET"
      /\ req[t].path \in {"/oauth/authorize", "/oauth/token"} )
    => outcome[t] = OAuthStubError

\* C12: a POST to /messages/ that names no open SSE session is answered with
\* an error response; the step changes neither the singletons nor any session,
\* and the task then stands at its end with the event loop, from where it
\* returns.
C12_PostWithoutSession ==
  [][\A t \in Tasks :
       (pc[t] = "post" /\ pc'[t] # "post" /\ req[t].session_id \notin sessions)
         => /\ outcome'[t] = "404 no session"
            /\ pc'[t] = "done" /\ running' = t
            /\ UNCHANGED bridge_state]_vars

\* a POST naming session 1 was answered 404 while the singletons exist and no
\* session is open
C12_Witness ==
  \E t \in Tasks :
    /\ pc[t] = "done" /\ Route(req[t]) = "messages"
    /\ req[t].session_id = 1 /\ outcome[t] = "404 no session"
    /\ mcp_server = 1 /\ sse_transport = 1 /\ sessions = {}

\* C13: when an SSE connection closes or fails, its task leaves the run loop
\* and its session is released; the cached server and transport stay the
\* same, every other task stays where it is, every other session stays open,
\* and every connection in its run loop has its session open for posts.
C13_DisconnectIsLocal ==
  /\ [](\A t \in Tasks : pc[t] \in {"streams", "run"} => t \in sessions)
  /\ [][\A t \in Tasks :
          /\ (pc[t] \in {"streams", "run"} /\ pc'[t] \notin {"streams", "run"})
               => /\ pc'[t] = "done" /\ outcome'[t] \in {"closed", "error"}
                  /\ t \notin sessions'
                  /\ UNCHANGED <<mcp_server, sse_transport, servers, transports>>
                  /\ \A u \in Tasks \ {t} :
                       /\ pc'[u] = pc[u]
                       /\ u \in sessions => u \in sessions'
          /\ (pc[t] = "post" /\ pc'[t] # "post" /\ req[t].session_id \in sessions)
               => outcome'[t] = "202 accepted"]_vars

\* one connection has failed while the other is still in its run loop
C13_Witness ==
  \E t, u \in Tasks :
    /\ pc[t] = "done" /\ outcome[t] = "error" /\ Route(req[t]) = "sse"
    /\ pc[u] = "run" /\ sessions = {u}
    /\ mcp_server = 1 /\ sse_transport = 1

\* C14: the stdio entrypoint exits with status 0 when it is interrupted, and
\* with a status other than 0 when the construction of the server or the run
\* loop raises another exception; it has no status while it runs.
C14_StdioExitStatus ==
  /\ stdio_pc = "KeyboardInterrupt" => exit_code = <<0>>
  /\ stdio_pc = "Exception" => (Len(exit_code) = 1 /\ exit_code[1] # 0)
  /\ stdio_pc \in {"start", "run"} => exit_code = <<>>

\* the constructor raised and the process exited with status 1
C14_Witness ==
  /\ stdio_pc = "Exception" /\ stdio_server = <<>> /\ exit_code = <<1>>

\* C15: inside one handshake the server is obtained first, the injection is
\* decided and applied next, and the SSE session is opened and the run loop
\* started last: a connection that opens its session or runs holds the server
\* and the transport, has tested the session for its token and finds it
\* authenticated if it carried one; no session is open before that.
C15_HandshakeOrder ==
  \A t \in Tasks :
    /\ pc[t] \in {"inject", "set_token"} =>
         /\ l_mcp_server[t] # 0 /\ l_sse[t] # 0
         /\ t \notin sessions
    /\ pc[t] \in {"connect_sse", "streams", "run"} =>
         /\ l_mcp_server[t] # 0 /\ l_sse[t] # 0
         /\ SessionToken(req[t]) # "" =>
              /\ "session" \in touched[t]
              /\ servers[l_mcp_server[t]].is_authenticated
    /\ pc[t] = "connect_sse" => t \notin sessions
    /\ t \in sessions => pc[t] \in {"streams", "run"}

\* a connection runs after it has injected its own token
C15_Witness ==
  \E t \in Tasks :
    /\ pc[t] = "run" /\ t \in sessions
    /\ [task |-> t, token |-> "tok-a", authenticated_before |-> FALSE]
         \in set_token_calls
    /\ servers[l_mcp_server[t]].credential = "tok-a"

\* C16: a handshake that carries a token while the session is authenticated
\* is not rejected: it goes on to open its SSE session like a handshake
\* without the header, with the session manager and its own outcome untouched,
\* and a connection only ever ends by closing or failing in its session, or
\* by a failed construction.
C16_LateTokenIgnored ==
  /\ [](\A t \in Tasks :
          (pc[t] = "done" /\ Route(req[t]) = "sse")
            => \/ outcome[t] \in {"closed", "error"} /\ l_mcp_server[t] # 0
               \/ outcome[t] = "error" /\ l_mcp_server[t] = 0)
  /\ [][\A t \in Tasks :
          ( /\ pc[t] = "inject" /\ pc'[t] # "inject"
            /\ servers[l_mcp_server[t]].is_authenticated )
          => /\ pc'[t] = "connect_sse"
             /\ UNCHANGED <<servers, set_token_calls, outcome, sessions>>]_vars

\* a connection that carried tok-b runs on a server built from a token
C16_Witness ==
  \E t \in Tasks :
    /\ pc[t] = "run" /\ SessionToken(req[t]) = "tok-b"
    /\ servers[l_mcp_server[t]].credential = "cfg-token"
    /\ set_token_calls = {}

\* C17: the credentials are read once by every call of get_mcp_server() that
\* finds the slot empty, and by no other step: a call that follows a failed
\* construction reads them again, and once a server is cached they are never
\* read again.
C17_ReadPerAttempt ==
  [][/\ config_reads' # config_reads =>
          /\ config_reads' = config_reads + 1
          /\ mcp_server = 0
          /\ \E t \in Tasks : pc[t] = "construct" /\ pc'[t] # "construct"
     /\ \A t \in Tasks :
          (pc[t] = "construct" /\ pc'[t] # "construct")
            => config_reads' = config_reads + 1
     /\ mcp_server # 0 => config_reads' = config_reads]_vars

\* a connection runs on a server whose construction was the second attempt
C17_Witness ==
  /\ config_reads = 2 /\ mcp_server = 1
  /\ \E t \in Tasks : pc[t] = "run" /\ l_mcp_server[t] = 1

\* C17 as stated: the credentials are read at most once in a process
C17_ReadOnce == config_reads <= 1

InSession(t) == pc[t] \in {"connect_sse", "streams", "run"}

\* C18: the credential belongs to the process, not to a connection: all
\* connections hold the one cached server and so run under its one
\* credential, and once the session is authenticated no step changes it, so
\* the credential a connection runs under is the same for every value of its
\* own X-Session-Token header.
C18_SharedCredential ==
  /\ [](\A t \in Tasks :
          InSession(t) =>
            /\ l_mcp_server[t] = mcp_server
            /\ \A u \in Tasks :
                 InSession(u) =>
                   servers[l_mcp_server[u]].credential
                     = servers[l_mcp_server[t]].credential)
  /\ [][\A i \in DOMAIN servers :
          servers[i].is_authenticated =>
            /\ servers'[i] = servers[i]
            /\ \A t \in Tasks :
                 (pc[t] = "inject" /\ pc'[t] # "inject" /\ l_mcp_server[t] = i)
                   => pc'[t] = "connect_sse"]_vars

\* two connections with different tokens run under the token of the first
C18_Witness ==
  \E t, u \in Tasks :
    /\ pc[t] = "run" /\ SessionToken(req[t]) = "tok-a"
    /\ pc[u] = "run" /\ SessionToken(req[u]) = "tok-b"
    /\ servers[l_mcp_server[t]].credential = "tok-b"
    /\ servers[l_mcp_server[u]].credential = "tok-b"

MessageIntake(r) == r.type = "http" /\ r.method = "POST" /\ r.path = "/messages/"

\* C19: a POST to /messages/ calls get_sse_transport and nothing else of the
\* bridge: it holds no server and does not query the session manager; the
\* transport may be constructed by it, while a server is constructed, and the
\* configuration read, only by a task handling a handshake.
C19_IntakeTouchesTransportOnly ==
  /\ [](\A t \in Tasks :
          (pc[t] # "idle" /\ MessageIntake(req[t]))
            => /\ touched[t] \subseteq {"transport"}
               /\ l_mcp_server[t] = 0
               /\ pc[t] \in {"call", "get_sse_transport", "new_transport",
                              "post", "done"})
  /\ [][(servers' # servers \/ mcp_server' # mcp_server
           \/ config_reads' # config_reads)
         => \E t \in Tasks :
              /\ pc'[t] # pc[t]
              /\ req[t].type = "http" /\ req[t].method = "GET"
              /\ req[t].path \in {"/sse", "/sse/"}]_vars

\* message intake has constructed the transport before any server exists
C19_Witness ==
  \E t \in Tasks :
    /\ pc[t] = "post" /\ MessageIntake(req[t])
    /\ l_sse[t] = 1 /\ sse_transport = 1 /\ transports = 1
    /\ mcp_server = 0 /\ config_reads = 0

====
